---- MODULE Spec2Model ----
(***************************************************************************)
(* Model of src/app.py: the sales dashboard script.  One run of the script *)
(* (load_data through the detail table) is one step; the state is the      *)
(* workbook on disk, the st.cache_data store of load_data, the sidebar     *)
(* widgets' session state and what the last run rendered.                  *)
(*                                                                         *)
(* Values.  Every cell is a record [t, v]: t names the kind ("date",       *)
(* "num", "str", "NaN", "NaT") and v is a tuple of integers: <<y, m, d>>   *)
(* for a date, <<n>> for a number, the character codes for a string, <<>>  *)
(* for a missing value.  Column names with accents are written in ASCII.   *)
(* Sale values are exact integers (cents); binary floating-point rounding  *)
(* of sums is not modelled.                                                *)
(***************************************************************************)
EXTENDS Integers, Sequences, FiniteSets, TLC

VARIABLES fs, cache, widgets, out, ties

vars == <<fs, cache, widgets, out, ties>>

----------------------------------------------------------------------------
(* Cells *)

NaN == [t |-> "NaN", v |-> <<>>]
NaT == [t |-> "NaT", v |-> <<>>]
Num(n) == [t |-> "num", v |-> <<n>>]
Date(y, m, d) == [t |-> "date", v |-> <<y, m, d>>]
Str(codes) == [t |-> "str", v |-> codes]

\* pd.isna / Series.dropna: NaN and NaT are the missing values
isna(c) == c.t \in {"NaN", "NaT"}

\* Character codes used by the texts of the model
Dash == 45
Zero == 48

Min(a, b) == IF a < b THEN a ELSE b

\* Python's str ordering (and the ordering of one-number tuples): lexicographic
\* by code point, a proper prefix first
LexLess(a, b) ==
    \E i \in 1..(Min(Len(a), Len(b)) + 1) :
        /\ \A j \in 1..(i - 1) : a[j] = b[j]
        /\ \/ i <= Len(a) /\ i <= Len(b) /\ a[i] < b[i]
           \/ i = Len(a) + 1 /\ i <= Len(b)

IsDigit(c) == c >= Zero /\ c <= Zero + 9

----------------------------------------------------------------------------
(* Dates *)

\* days since 1970-01-01 of a proleptic Gregorian date (datetime64 arithmetic)
DaysFromCivil(y, m, d) ==
    LET yy == IF m <= 2 THEN y - 1 ELSE y
        era == yy \div 400
        yoe == yy - era * 400
        mp == IF m > 2 THEN m - 3 ELSE m + 9
        doy == (153 * mp + 2) \div 5 + d - 1
        doe == yoe * 365 + yoe \div 4 - yoe \div 100 + doy
    IN era * 146097 + doe - 719468

IsLeap(y) == (y % 4 = 0 /\ y % 100 # 0) \/ y % 400 = 0

DaysInMonth(y, m) ==
    IF m = 2 THEN (IF IsLeap(y) THEN 29 ELSE 28)
    ELSE IF m \in {4, 6, 9, 11} THEN 30 ELSE 31

\* the text is an ISO date "YYYY-MM-DD" naming a day of the calendar
IsIsoDate(s) ==
    /\ Len(s) = 10
    /\ s[5] = Dash /\ s[8] = Dash
    /\ \A i \in {1, 2, 3, 4, 6, 7, 9, 10} : IsDigit(s[i])
    /\ LET y == (s[1] - Zero) * 1000 + (s[2] - Zero) * 100 + (s[3] - Zero) * 10 + (s[4] - Zero)
           m == (s[6] - Zero) * 10 + (s[7] - Zero)
           d == (s[9] - Zero) * 10 + (s[10] - Zero)
       IN y >= 1 /\ m >= 1 /\ m <= 12 /\ d >= 1 /\ d <= DaysInMonth(y, m)

ParseIsoDate(s) ==
    Date((s[1] - Zero) * 1000 + (s[2] - Zero) * 100 + (s[3] - Zero) * 10 + (s[4] - Zero),
         (s[6] - Zero) * 10 + (s[7] - Zero),
         (s[9] - Zero) * 10 + (s[10] - Zero))

\* pd.to_datetime (errors="raise", the default) accepts the cell: a date, a
\* blank, a text that reads as a date, a number (nanoseconds since the epoch)
DateParses(c) == c.t \in {"date", "NaN", "NaT", "num"} \/ (c.t = "str" /\ IsIsoDate(c.v))

\* pd.to_datetime of one cell it accepts (a number below one day of
\* nanoseconds falls on 1970-01-01; larger ones are outside the model's inputs)
to_datetime(c) ==
    IF c.t = "date" THEN c
    ELSE IF c.t = "str" THEN ParseIsoDate(c.v)
    ELSE IF c.t = "num" THEN Date(1970, 1, 1)
    ELSE NaT

\* the text is an unsigned decimal integer
IsDecimal(s) == Len(s) >= 1 /\ \A i \in 1..Len(s) : IsDigit(s[i])

RECURSIVE DecimalValue(_)
DecimalValue(s) ==
    IF Len(s) = 0 THEN 0
    ELSE DecimalValue(SubSeq(s, 1, Len(s) - 1)) * 10 + (s[Len(s)] - Zero)

\* pd.to_numeric(errors="coerce") of one cell
to_numeric(c) ==
    IF c.t = "num" THEN c
    ELSE IF c.t = "str" /\ IsDecimal(c.v) THEN Num(DecimalValue(c.v))
    ELSE NaN

\* the decimal digits of n, zero-padded on the left to width w
RECURSIVE ZeroPad(_, _)
ZeroPad(n, w) ==
    IF w = 0 THEN <<>> ELSE Append(ZeroPad(n \div 10, w - 1), Zero + (n % 10))

\* Series.dt.year / Series.dt.month: NaT gives NaN
dt_year(c) == IF c.t = "date" THEN Num(c.v[1]) ELSE NaN
dt_month(c) == IF c.t = "date" THEN Num(c.v[2]) ELSE NaN

\* the decimal digits of n >= 0, without padding
RECURSIVE Decimal(_)
Decimal(n) == IF n < 10 THEN <<Zero + n>> ELSE Append(Decimal(n \div 10), Zero + (n % 10))

\* faulty variant: the month written without its leading zero
to_period_M_str_unpadded(c) ==
    IF c.t = "date" THEN Str(ZeroPad(c.v[1], 4) \o <<Dash>> \o Decimal(c.v[2]))
    ELSE Str(<<78, 97, 84>>)

\* Series.dt.to_period("M").astype(str): "YYYY-MM"; NaT becomes the text "NaT"
to_period_M_str(c) ==
    IF c.t = "date" THEN Str(ZeroPad(c.v[1], 4) \o <<Dash>> \o ZeroPad(c.v[2], 2))
    ELSE Str(<<78, 97, 84>>)

\* (a - b).dt.days: NaN when either date is missing
dt_days(a, b) ==
    IF a.t = "date" /\ b.t = "date"
    THEN Num(DaysFromCivil(a.v[1], a.v[2], a.v[3]) - DaysFromCivil(b.v[1], b.v[2], b.v[3]))
    ELSE NaN

----------------------------------------------------------------------------
(* Data frames: [columns |-> set of names, rows |-> sequence of functions   *)
(* from the column names to cells]                                          *)

EmptyFrame == [columns |-> {}, rows |-> <<>>]

\* df[name] = vals (adds or replaces the column; vals holds one cell per row)
WithColumn(df, name, vals) ==
    [columns |-> df.columns \cup {name},
     rows |-> [i \in 1..Len(df.rows) |->
                 [c \in df.columns \cup {name} |->
                     IF c = name THEN vals[i] ELSE df.rows[i][c]]]]

\* df[name] as the sequence of its cells
Column(df, name) == [i \in 1..Len(df.rows) |-> df.rows[i][name]]

\* the nine source columns and their names in the code
SourceColumns ==
    {"Data da Venda", "Data de Emissao da NF", "Cliente", "Vendedor Responsavel",
     "Tipo de Solucao", "Descricao do Projeto", "Valor da Venda (R$)", "OS.", "Proposta"}

NewName(c) ==
    CASE c = "Data da Venda" -> "data_venda"
      [] c = "Data de Emissao da NF" -> "data_nf"
      [] c = "Cliente" -> "cliente"
      [] c = "Vendedor Responsavel" -> "vendedor"
      [] c = "Tipo de Solucao" -> "tipo_solucao"
      [] c = "Descricao do Projeto" -> "descricao_projeto"
      [] c = "Valor da Venda (R$)" -> "valor_venda"
      [] c = "OS." -> "os"
      [] c = "Proposta" -> "proposta"
      [] OTHER -> c

\* df.rename(columns=...): names that are absent are ignored
rename(df) ==
    LET old(n) == CHOOSE c \in df.columns : NewName(c) = n
    IN [columns |-> {NewName(c) : c \in df.columns},
        rows |-> [i \in 1..Len(df.rows) |->
                    [n \in {NewName(c) : c \in df.columns} |-> df.rows[i][old(n)]]]]

\* the outcome of a call: raised = "" when it returned
Returned(df) == [raised |-> "", line |-> 0, df |-> df]
Raised(err, line) == [raised |-> err, line |-> line, df |-> EmptyFrame]

\* lines 36-39: the derived columns
derive(df) ==
    WithColumn(
      WithColumn(
        WithColumn(df, "ano", [i \in 1..Len(df.rows) |-> dt_year(df.rows[i]["data_venda"])]),
        "mes", [i \in 1..Len(df.rows) |-> dt_month(df.rows[i]["data_venda"])]),
      "ano_mes", [i \in 1..Len(df.rows) |-> to_period_M_str(df.rows[i]["data_venda"])])

\* lines 30-34 when no cell is refused
convert(df) ==
    WithColumn(
      WithColumn(
        WithColumn(df, "data_venda",
                   [i \in 1..Len(df.rows) |-> to_datetime(df.rows[i]["data_venda"])]),
        "data_nf", [i \in 1..Len(df.rows) |-> to_datetime(df.rows[i]["data_nf"])]),
      "valor_venda", [i \in 1..Len(df.rows) |-> to_numeric(df.rows[i]["valor_venda"])])

\* lines 29-41 on the renamed frame
prepare(df) ==
    IF "data_venda" \notin df.columns THEN Raised("KeyError", 30)
    ELSE IF \E i \in 1..Len(df.rows) : ~DateParses(df.rows[i]["data_venda"])
    THEN Raised("ValueError", 30)
    ELSE IF "data_nf" \notin df.columns THEN Raised("KeyError", 31)
    ELSE IF \E i \in 1..Len(df.rows) : ~DateParses(df.rows[i]["data_nf"])
    THEN Raised("ValueError", 31)
    ELSE IF "valor_venda" \notin df.columns THEN Raised("KeyError", 34)
    ELSE Returned(derive(convert(df)))

\* load_data's body on the first sheet of the workbook
load_data(sheet) == prepare(rename(sheet))

----------------------------------------------------------------------------
(* Sorting and grouping *)

\* faulty variant: Series.unique() without dropna(): the missing cell is an option
unique_keepna(df, name) ==
    {df.rows[i][name] : i \in 1..Len(df.rows)}

\* Series.dropna().unique(): the distinct non-missing cells of a column
unique_dropna(df, name) ==
    {df.rows[i][name] : i \in 1..Len(df.rows)} \ {NaN, NaT}

\* sorted(...) of a set of cells of one kind
RECURSIVE sorted(_)
sorted(S) ==
    IF S = {} THEN <<>>
    ELSE LET m == CHOOSE x \in S : \A y \in S \ {x} : LexLess(x.v, y.v)
         IN <<m>> \o sorted(S \ {m})

\* Series.sum(): missing values are skipped, the empty sum is 0
RECURSIVE sum(_)
sum(cells) ==
    IF Len(cells) = 0 THEN 0
    ELSE sum(SubSeq(cells, 1, Len(cells) - 1))
         + (IF cells[Len(cells)].t = "num" THEN cells[Len(cells)].v[1] ELSE 0)

\* numpy's sort of the pairs [k, x] by k, ascending.  kind="quicksort" (the
\* default of sort_values) does not say where equal keys go: tie_order is what
\* the build does with them, "kept" (input order) or "reversed".
RECURSIVE argsort(_, _)
argsort(pairs, tie_order) ==
    IF Len(pairs) <= 1 THEN pairs
    ELSE LET x == pairs[Len(pairs)]
             t == argsort(SubSeq(pairs, 1, Len(pairs) - 1), tie_order)
             p == Cardinality({i \in 1..Len(t) :
                     IF tie_order = "kept" THEN ~LexLess(x.k, t[i].k)
                     ELSE LexLess(t[i].k, x.k)})
         IN SubSeq(t, 1, p) \o <<x>> \o SubSeq(t, p + 1, Len(t))

\* pandas' nargsort for ascending=False: the input is reversed, sorted
\* ascending and the result reversed, so that a stable kind keeps equal keys in
\* input order
Reverse(s) == [i \in 1..Len(s) |-> s[Len(s) + 1 - i]]

\* the groups of groupby(key): the distinct keys; dropna=True leaves the
\* missing ones out
group_keys(df, key) ==
    {df.rows[i][key] : i \in 1..Len(df.rows)} \ {NaN, NaT}

\* groupby(key, as_index=False)["valor_venda"].sum(): one row per distinct
\* key, keys ascending (sort=True), rows whose key is missing dropped
\* (dropna=True)
groupby_sum(df, key) ==
    LET keys == sorted(group_keys(df, key))
        member(k) == SelectSeq(df.rows, LAMBDA r : r[key] = k)
    IN [i \in 1..Len(keys) |->
          [key |-> keys[i],
           valor_venda |-> sum([j \in 1..Len(member(keys[i])) |->
                                   member(keys[i])[j]["valor_venda"]])]]

\* .sort_values(<key column>): ascending by the group key
sort_values_key(g, tie_order) ==
    LET s == argsort([i \in 1..Len(g) |-> [k |-> g[i].key.v, x |-> g[i]]], tie_order)
    IN [i \in 1..Len(s) |-> s[i].x]

\* faulty variant: .sort_values("valor_venda"): ascending
sort_values_valor_asc(g, tie_order) ==
    LET s == argsort([i \in 1..Len(g) |-> [k |-> <<g[i].valor_venda>>, x |-> g[i]]], tie_order)
    IN [i \in 1..Len(s) |-> s[i].x]

\* .sort_values("valor_venda", ascending=False)
sort_values_valor_desc(g, tie_order) ==
    LET r == Reverse(g)
        s == Reverse(argsort([i \in 1..Len(r) |-> [k |-> <<r[i].valor_venda>>, x |-> r[i]]],
                             tie_order))
    IN [i \in 1..Len(s) |-> s[i].x]

\* faulty variant: a cut one row too late
head_plus_one(s, n) == SubSeq(s, 1, Min(n + 1, Len(s)))

\* .head(n)
head(s, n) == SubSeq(s, 1, Min(n, Len(s)))

TopN == 10

----------------------------------------------------------------------------
(* The script *)

file_path == "/app/data/ESTUDO-VENDAS.xlsx"

\* the four sidebar filters, in the order the script builds them
Dims == <<"ano", "vendedor", "tipo_solucao", "cliente">>

\* the line that reads the column of a filter
DimLine(d) ==
    CASE d = "ano" -> 65
      [] d = "vendedor" -> 70
      [] d = "tipo_solucao" -> 75
      [] d = "cliente" -> 80

\* the columns of the detail table
DetailColumns ==
    {"data_venda", "data_nf", "cliente", "vendedor", "tipo_solucao",
     "descricao_projeto", "valor_venda", "os", "proposta"}

Range(s) == {s[i] : i \in 1..Len(s)}

\* faulty variant: a cache that never hits
cache_never_hit(store, files, path) == FALSE

\* st.cache_data: a stored return value exists for the argument.  The key is
\* the argument (the path) alone.
cache_hit(store, files, path) == path \in DOMAIN store

\* load_data behind @st.cache_data: a hit returns the stored frame; a miss
\* calls the function and stores what it returns (an exception is not stored)
cached_load_data(store, files, path) ==
    IF cache_hit(store, files, path)
    THEN [ret |-> Returned(store[path]), store |-> store]
    ELSE LET r == load_data(files[path])
         IN [ret |-> r,
             store |-> IF r.raised = ""
                       THEN [p \in DOMAIN store \cup {path} |->
                               IF p = path THEN r.df ELSE store[p]]
                       ELSE store]

\* st.sidebar.multiselect(options=..., default=options): the widget's session
\* state when it has one, all the options otherwise
multiselect(w, d, options) == IF d \in DOMAIN w THEN w[d] ELSE Range(options)

\* Series.isin(values)
isin(c, values) == c \in values

\* faulty variant: the filter without its customer condition
aplica_filtros_sem_cliente(df, selecionado) ==
    [columns |-> df.columns,
     rows |-> SelectSeq(df.rows,
                 LAMBDA r : /\ isin(r["ano"], selecionado["ano"])
                            /\ isin(r["vendedor"], selecionado["vendedor"])
                            /\ isin(r["tipo_solucao"], selecionado["tipo_solucao"]))]

\* df[(df["ano"].isin(...)) & ... & (df["cliente"].isin(...))].copy()
aplica_filtros(df, selecionado) ==
    [columns |-> df.columns,
     rows |-> SelectSeq(df.rows,
                 LAMBDA r : /\ isin(r["ano"], selecionado["ano"])
                            /\ isin(r["vendedor"], selecionado["vendedor"])
                            /\ isin(r["tipo_solucao"], selecionado["tipo_solucao"])
                            /\ isin(r["cliente"], selecionado["cliente"]))]

\* faulty variant: the filtered frame is a view: the new column lands in df as well
lead_time_dias_on_view(df, filtrado) ==
    [df |-> WithColumn(df, "lead_time_dias",
               [i \in 1..Len(df.rows) |->
                   dt_days(df.rows[i]["data_nf"], df.rows[i]["data_venda"])]),
     df_filtrado |-> WithColumn(filtrado, "lead_time_dias",
                        [i \in 1..Len(filtrado.rows) |->
                            dt_days(filtrado.rows[i]["data_nf"],
                                    filtrado.rows[i]["data_venda"])])]

\* df_filtrado["lead_time_dias"] = (data_nf - data_venda).dt.days: the column
\* is added to the copy, df is left as it was
lead_time_dias(df, filtrado) ==
    [df |-> df,
     df_filtrado |-> WithColumn(filtrado, "lead_time_dias",
                        [i \in 1..Len(filtrado.rows) |->
                            dt_days(filtrado.rows[i]["data_nf"],
                                    filtrado.rows[i]["data_venda"])])]

\* total / count as a fraction <<numerator, denominator>>
Ratio(n, d) == <<n, d>>

\* faulty variant: the division without its guard
ticket_medio_unguarded(total_vendas, qtd_vendas) == Ratio(total_vendas, qtd_vendas)

\* ticket_medio = total_vendas / qtd_vendas if qtd_vendas > 0 else 0
ticket_medio(total_vendas, qtd_vendas) ==
    IF qtd_vendas > 0 THEN Ratio(total_vendas, qtd_vendas) ELSE Ratio(0, 1)

\* Series.mean(): the mean of the non-missing cells, NaN when there is none
mean(cells) ==
    LET present == SelectSeq(cells, LAMBDA c : c.t = "num")
    IN IF Len(present) = 0 THEN NaN
       ELSE [t |-> "num", v |-> Ratio(sum(present), Len(present))]

\* the fourth metric card: the mean (shown with one decimal), or "-"
col4_metric(ciclo_medio) == IF isna(ciclo_medio) THEN Str(<<Dash>>) ELSE ciclo_medio

\* DataFrame.empty
empty(df) == Len(df.rows) = 0 \/ df.columns = {}

\* one chart section: the plot of the grouped frame, or st.info(...)
chart(filtrado, data) ==
    IF ~empty(filtrado) THEN [kind |-> "chart", data |-> data]
    ELSE [kind |-> "info", data |-> <<>>]

df_mes(filtrado, tie_order) ==
    chart(filtrado, sort_values_key(groupby_sum(filtrado, "ano_mes"), tie_order))

df_tipo(filtrado, tie_order) ==
    chart(filtrado, sort_values_valor_desc(groupby_sum(filtrado, "tipo_solucao"), tie_order))

df_cliente(filtrado, tie_order) ==
    chart(filtrado,
          head(sort_values_valor_desc(groupby_sum(filtrado, "cliente"), tie_order), TopN))

df_vendedor(filtrado, tie_order) ==
    chart(filtrado, sort_values_valor_desc(groupby_sum(filtrado, "vendedor"), tie_order))

\* df_filtrado[[...]].sort_values("data_venda", ascending=False): latest sale
\* first, rows without a sale date last
tabela(filtrado, tie_order) ==
    LET proj == [i \in 1..Len(filtrado.rows) |->
                    [c \in DetailColumns |-> filtrado.rows[i][c]]]
        dated == Reverse(SelectSeq(proj, LAMBDA r : r["data_venda"].t = "date"))
        undated == SelectSeq(proj, LAMBDA r : r["data_venda"].t # "date")
        s == Reverse(argsort([i \in 1..Len(dated) |->
                        [k |-> <<DaysFromCivil(dated[i]["data_venda"].v[1],
                                               dated[i]["data_venda"].v[2],
                                               dated[i]["data_venda"].v[3])>>,
                         x |-> dated[i]]], tie_order))
    IN [i \in 1..Len(s) |-> s[i].x] \o undated

\* what a run has put on the page (and the frame df it worked on) before
\* anything is rendered
NothingRendered ==
    [raised |-> "", line |-> 0, df |-> EmptyFrame,
     options |-> <<>>, selecionado |-> <<>>,
     df_filtrado |-> EmptyFrame,
     metrics |-> FALSE, total_vendas |-> 0, qtd_vendas |-> 0,
     ticket_medio |-> Ratio(0, 1), ciclo_medio |-> NaN, col4 |-> NaN,
     df_mes |-> [kind |-> "none", data |-> <<>>],
     df_tipo |-> [kind |-> "none", data |-> <<>>],
     df_cliente |-> [kind |-> "none", data |-> <<>>],
     df_vendedor |-> [kind |-> "none", data |-> <<>>],
     table |-> FALSE, tabela |-> <<>>]

\* lines 223-237: the detail table, which raises when a column it names is
\* absent
Section9(store, w, page, filtrado, tie_order) ==
    IF ~(DetailColumns \subseteq filtrado.columns)
    THEN [cache |-> store, widgets |-> w,
          out |-> [page EXCEPT !.raised = "KeyError", !.line = 225]]
    ELSE [cache |-> store, widgets |-> w,
          out |-> [page EXCEPT !.table = TRUE, !.tabela = tabela(filtrado, tie_order)]]

\* lines 97-217: the metric cards and the four charts
Sections4to8(sidebar, df, filtrado0, filtrado, tie_order) ==
    [sidebar EXCEPT
       !.df = df,
       !.df_filtrado = filtrado,
       !.metrics = TRUE,
       !.total_vendas = sum(Column(filtrado0, "valor_venda")),
       !.qtd_vendas = Len(filtrado0.rows),
       !.ticket_medio = ticket_medio(sum(Column(filtrado0, "valor_venda")), Len(filtrado0.rows)),
       !.ciclo_medio = mean(Column(filtrado, "lead_time_dias")),
       !.col4 = col4_metric(mean(Column(filtrado, "lead_time_dias"))),
       !.df_mes = df_mes(filtrado, tie_order),
       !.df_tipo = df_tipo(filtrado, tie_order),
       !.df_cliente = df_cliente(filtrado, tie_order),
       !.df_vendedor = df_vendedor(filtrado, tie_order)]

\* lines 86-237, with the frames of lines 86-102 at hand
Page(store, w, sidebar, filtrado0, lt, tie_order) ==
    Section9(store, w, Sections4to8(sidebar, lt.df, filtrado0, lt.df_filtrado, tie_order),
             lt.df_filtrado, tie_order)

\* lines 86-237: the filter, then the page
Filtered(store, w, sidebar, df, filtrado0, tie_order) ==
    Page(store, w, sidebar, filtrado0, lead_time_dias(df, filtrado0), tie_order)

\* the widgets' session state once the filters in `built` have been shown
StoreWidgets(w, built, selecionado) ==
    [d \in DOMAIN w \cup built |-> IF d \in built THEN selecionado[d] ELSE w[d]]

\* lines 65-83 with the options at hand: the filters up to the first whose
\* column is absent (k) are built; reading that column raises
Widgets(store, df, w, k, options, tie_order) ==
    LET built == DOMAIN options
        selecionado == [d \in built |-> multiselect(w, d, options[d])]
        sidebar == [NothingRendered EXCEPT !.df = df, !.options = options,
                                           !.selecionado = selecionado]
    IN  IF k <= Len(Dims)
        THEN [cache |-> store, widgets |-> StoreWidgets(w, built, selecionado),
              out |-> [sidebar EXCEPT !.raised = "KeyError", !.line = DimLine(Dims[k])]]
        ELSE Filtered(store, StoreWidgets(w, built, selecionado), sidebar, df,
                      aplica_filtros(df, selecionado), tie_order)

\* the index in Dims of the first filter whose column df lacks (Len(Dims) + 1
\* when it has them all)
FirstAbsent(df) ==
    LET absent == {i \in 1..Len(Dims) : Dims[i] \notin df.columns} \cup {Len(Dims) + 1}
    IN CHOOSE i \in absent : \A j \in absent : i <= j

\* lines 63-237 on the loaded frame
Sidebar(store, df, w, k, tie_order) ==
    Widgets(store, df, w, k,
            [d \in {Dims[i] : i \in 1..(k - 1)} |-> sorted(unique_dropna(df, d))],
            tie_order)

\* the script after line 57
AfterLoad(c, w, tie_order) ==
    IF c.ret.raised # ""
    THEN [cache |-> c.store, widgets |-> w,
          out |-> [NothingRendered EXCEPT !.raised = c.ret.raised, !.line = c.ret.line]]
    ELSE Sidebar(c.store, c.ret.df, w, FirstAbsent(c.ret.df), tie_order)

\* one run of the script, top to bottom, until it ends or raises
Script(store, files, w, tie_order) ==
    AfterLoad(cached_load_data(store, files, file_path), w, tie_order)

----------------------------------------------------------------------------
(* Workbooks the model is run on *)

MaxRows == 3
MaxLoadRows == 2
MaxCacheRows == 2
MaxClientes == 11

TieOrders == {"kept", "reversed"}

\* texts
Txt_A == <<65>>
Txt_B == <<66>>
Txt_Ana == <<65, 110, 97>>
Txt_Bia == <<66, 105, 97>>
Txt_X == <<88>>
Txt_Y == <<89>>
\* "n/d"
Txt_nd == <<110, 47, 100>>
\* "2023-02-20"
Txt_iso == <<50, 48, 50, 51, 45, 48, 50, 45, 50, 48>>
\* "100"
Txt_100 == <<49, 48, 48>>

\* one row of the sheet; the three pass-through columns hold a text
SheetRow(venda, nf, cliente, vendedor, tipo, valor) ==
    [c \in SourceColumns |->
        CASE c = "Data da Venda" -> venda
          [] c = "Data de Emissao da NF" -> nf
          [] c = "Cliente" -> cliente
          [] c = "Vendedor Responsavel" -> vendedor
          [] c = "Tipo de Solucao" -> tipo
          [] c = "Valor da Venda (R$)" -> valor
          [] OTHER -> Str(Txt_X)]

\* a sheet with the given columns and rows
Sheet(cols, rows) ==
    [columns |-> cols,
     rows |-> [i \in 1..Len(rows) |-> [c \in cols |-> rows[i][c]]]]

SeqsUpTo(S, n) == UNION {[1..m -> S] : m \in 0..n}

\* rows every cell of which load_data accepts: two years, months 02 and 10,
\* a blank in each filtered column, blank and non-numeric sale values, a date
\* and a number typed as text, an invoice that precedes the sale, a row that
\* is there twice, equal sums under different keys
SampleRows ==
    <<SheetRow(Date(2023, 10, 5), NaN, Str(Txt_B), Str(Txt_Bia), Str(Txt_Y), Num(150)),
      SheetRow(Date(2023, 2, 10), Date(2023, 3, 15), Str(Txt_A), Str(Txt_Ana), Str(Txt_X), Num(100)),
      SheetRow(Date(2024, 1, 20), Date(2024, 1, 10), Str(Txt_A), Str(Txt_Bia), Str(Txt_X), NaN),
      SheetRow(NaN, Date(2023, 3, 15), Str(Txt_B), Str(Txt_Ana), Str(Txt_Y), Num(100)),
      SheetRow(Date(2023, 2, 10), Date(2023, 2, 10), NaN, Str(Txt_Ana), Str(Txt_X), Num(50)),
      SheetRow(Date(2023, 10, 5), Date(2023, 10, 6), Str(Txt_B), NaN, Str(Txt_X), Num(100)),
      SheetRow(Date(2024, 1, 20), NaN, Str(Txt_A), Str(Txt_Ana), NaN, Str(Txt_nd)),
      SheetRow(Str(Txt_iso), Date(2023, 3, 15), Str(Txt_B), Str(Txt_Ana), Str(Txt_X), Str(Txt_100)),
      SheetRow(Date(2023, 2, 10), Date(2023, 3, 15), Str(Txt_A), Str(Txt_Ana), Str(Txt_X), Num(100))>>

\* the rows of s at the indices in S, in the order of s
Pick(s, S) ==
    LET idx == SelectSeq([i \in 1..Len(s) |-> i], LAMBDA i : i \in S)
    IN [j \in 1..Len(idx) |-> s[idx[j]]]

\* the sheets made of at most n of the rows of s
Excerpts(s, n) == {Pick(s, S) : S \in {T \in SUBSET (1..Len(s)) : Cardinality(T) <= n}}

Sheets == {Sheet(SourceColumns, rows) : rows \in Excerpts(SampleRows, MaxRows)}

\* rows with malformed cells (a sale date, an invoice date, a sale value that
\* is not one) beside well-formed ones
LoadRows ==
    {SheetRow(Date(2023, 2, 10), Date(2023, 3, 15), Str(Txt_A), Str(Txt_Ana), Str(Txt_X), Num(100)),
     SheetRow(NaN, NaN, Str(Txt_B), Str(Txt_Ana), Str(Txt_Y), Num(50)),
     SheetRow(Str(Txt_nd), Date(2023, 3, 15), Str(Txt_A), Str(Txt_Ana), Str(Txt_X), Num(100)),
     SheetRow(Date(2023, 10, 5), Str(Txt_nd), Str(Txt_B), Str(Txt_Ana), Str(Txt_X), Num(50)),
     SheetRow(Date(2023, 10, 5), Date(2023, 10, 6), Str(Txt_B), Str(Txt_Ana), Str(Txt_X), Str(Txt_nd))}

\* all nine columns, or all but one
LoadColumns == {SourceColumns} \cup {SourceColumns \ {c} : c \in SourceColumns}

LoadSheets ==
    {Sheet(cols, rows) : cols \in LoadColumns, rows \in SeqsUpTo(LoadRows, MaxLoadRows)}

\* the text "Cnn" naming customer n
Cliente(n) == <<67>> \o ZeroPad(n, 2)

\* one row per customer 1..n, customer i selling valores[i]
TopRows(n, valores) ==
    [i \in 1..n |->
        SheetRow(Date(2023, 2, 10), Date(2023, 3, 15), Str(Cliente(i)), Str(Txt_Ana),
                 Str(Txt_X), Num(valores[i]))]

\* the customers' sales when those in `other` sell `b` and the rest sell `a`
Valores(n, other, a, b) == [i \in 1..n |-> IF i \in other THEN b ELSE a]

\* at most two of the customers differ from the rest
FewOf(n) == {S \in SUBSET (1..n) : Cardinality(S) <= 2}

\* nine to MaxClientes customers, each selling 50 or 100, so that sums tie,
\* also across the cut after the tenth, and the best sellers stand anywhere
TopSheets ==
    {Sheet(SourceColumns, TopRows(n, Valores(n, S, hl[1], hl[2]))) :
        n \in (TopN - 1)..MaxClientes, S \in FewOf(MaxClientes),
        hl \in {<<50, 100>>, <<100, 50>>}}

CacheRows ==
    {SheetRow(Date(2023, 2, 10), Date(2023, 3, 15), Str(Txt_A), Str(Txt_Ana), Str(Txt_X), Num(100)),
     SheetRow(Date(2023, 10, 5), NaN, Str(Txt_B), Str(Txt_Ana), Str(Txt_X), Num(50)),
     SheetRow(Str(Txt_nd), NaN, Str(Txt_A), Str(Txt_Ana), Str(Txt_X), Num(50))}

CacheSheets == {Sheet(SourceColumns, rows) : rows \in SeqsUpTo(CacheRows, MaxCacheRows)}

----------------------------------------------------------------------------
(* Actions *)

\* the script runs with the widgets as they are: the first run of the
\* session, or a rerun the user asks for
Run ==
    LET s == Script(cache, fs, widgets, ties)
    IN /\ cache' = s.cache
       /\ widgets' = s.widgets
       /\ out' = s.out
       /\ UNCHANGED <<fs, ties>>

\* the user adds or removes one option of one sidebar filter; the widget's
\* state changes and the script reruns
Toggle ==
    \E d \in DOMAIN widgets \cap DOMAIN out.options :
      \E v \in Range(out.options[d]) :
        LET w == [widgets EXCEPT ![d] = IF v \in @ THEN @ \ {v} ELSE @ \cup {v}]
            s == Script(cache, fs, w, ties)
        IN /\ cache' = s.cache
           /\ widgets' = s.widgets
           /\ out' = s.out
           /\ UNCHANGED <<fs, ties>>

\* the workbook is replaced on disk by another one
ChangeFile ==
    /\ \E sh \in CacheSheets : sh # fs[file_path] /\ fs' = [fs EXCEPT ![file_path] = sh]
    /\ UNCHANGED <<cache, widgets, out, ties>>

----------------------------------------------------------------------------
(* Specifications *)

InitWith(sheets) ==
    /\ fs \in [{file_path} -> sheets]
    /\ cache = <<>>
    /\ widgets = <<>>
    /\ out = NothingRendered
    /\ ties \in TieOrders

\* well-formed workbooks, filtered at will
Init == InitWith(Sheets)
Next == Run \/ Toggle
Spec == Init /\ [][Next]_vars

\* workbooks with absent columns and malformed cells
InitLoad == InitWith(LoadSheets)
SpecLoad == InitLoad /\ [][Next]_vars

\* workbooks with many customers, shown unfiltered
InitTop == InitWith(TopSheets)
NextTop == Run
SpecTop == InitTop /\ [][NextTop]_vars

\* a workbook that changes on disk between runs
InitCache == InitWith(CacheSheets)
NextCache == Run \/ Toggle \/ ChangeFile
SpecCache == InitCache /\ [][NextCache]_vars

----------------------------------------------------------------------------
(* Properties *)

\* a run of the script has ended (or raised) since the session began
CycleRan == out # NothingRendered

\* the run got past the filter: the metric cards were computed
Rendered == out.metrics

\* how many times x occurs in the sequence s
Occurrences(s, x) == Cardinality({i \in 1..Len(s) : s[i] = x})

\* the rows of the filtered subset, without the column the run added to it
FilteredRows ==
    [i \in 1..Len(out.df_filtrado.rows) |->
        [c \in out.df.columns |-> out.df_filtrado.rows[i][c]]]

\* the row's value is selected in each of the four dimensions
Qualifies(r) == \A i \in 1..Len(Dims) : r[Dims[i]] \in out.selecionado[Dims[i]]

\* the row's value is missing in one of the four dimensions
MissingDim(r) == \E i \in 1..Len(Dims) : isna(r[Dims[i]])

RECURSIVE SumValor(_)
SumValor(g) ==
    IF Len(g) = 0 THEN 0 ELSE g[1].valor_venda + SumValor(SubSeq(g, 2, Len(g)))

GroupDims == {"ano_mes", "tipo_solucao", "cliente", "vendedor"}

\* C1: a row of the dataset is in the filtered subset exactly when its value
\* in each of the four dimensions is in that dimension's selection (as many
\* times as it is in the dataset), and never when one of those values is
\* missing.
C1_FilterIff ==
    Rendered =>
        /\ \A r \in Range(out.df.rows) :
              Occurrences(FilteredRows, r)
                = (IF Qualifies(r) THEN Occurrences(out.df.rows, r) ELSE 0)
        /\ Range(FilteredRows) \subseteq Range(out.df.rows)
        /\ \A r \in Range(out.df.rows) : MissingDim(r) => r \notin Range(FilteredRows)

\* a run over a dataset with a row that lacks a value and a row that has them
\* all, where the selection keeps some complete row and drops another
C1_Witness ==
    /\ Rendered
    /\ \E r \in Range(out.df.rows) : MissingDim(r)
    /\ \E r \in Range(out.df.rows) : ~MissingDim(r) /\ ~Qualifies(r)
    /\ Len(out.df_filtrado.rows) > 0

\* C2: for each of the four grouping dimensions, the per-group sums of the
\* filtered subset add up to the total revenue of the metrics step (the
\* customer grouping taken before its cut to ten); the charts show those sums.
C2_Conservation ==
    Rendered =>
        /\ \A d \in GroupDims : SumValor(groupby_sum(out.df_filtrado, d)) = out.total_vendas
        /\ \A ch \in {out.df_mes, out.df_tipo, out.df_vendedor} :
              ch.kind = "chart" => SumValor(ch.data) = out.total_vendas
        /\ out.df_cliente.kind = "chart" /\ Cardinality(group_keys(out.df_filtrado, "cliente")) <= TopN
              => SumValor(out.df_cliente.data) = out.total_vendas

\* a filtered subset of two groups, one row of which has no sale value, while
\* the dataset holds a row the filter dropped for a missing dimension
C2_Witness ==
    /\ Rendered
    /\ out.total_vendas > 0
    /\ \E i \in 1..Len(out.df_filtrado.rows) : isna(out.df_filtrado.rows[i]["valor_venda"])
    /\ out.df_tipo.kind = "chart" /\ Len(out.df_tipo.data) = 2
    /\ \E r \in Range(out.df.rows) : MissingDim(r)

\* some selection is empty, or the dataset has no rows
NothingSelected ==
    \/ Len(out.df.rows) = 0
    \/ \E d \in DOMAIN out.selecionado : out.selecionado[d] = {}

\* C4: a run in which some dimension's selection is empty (or the dataset has
\* no rows) ends without raising, with an empty filtered subset, count 0,
\* total 0, average ticket 0, no average cycle (the card shows "-") and the
\* no-data notice in place of each of the four charts.
C4_EmptySelection ==
    CycleRan /\ NothingSelected =>
        /\ out.raised = ""
        /\ Rendered /\ out.table
        /\ Len(out.df_filtrado.rows) = 0
        /\ out.qtd_vendas = 0
        /\ out.total_vendas = 0
        /\ out.ticket_medio = Ratio(0, 1)
        /\ out.ciclo_medio = NaN
        /\ out.col4 = Str(<<Dash>>)
        /\ \A ch \in {out.df_mes, out.df_tipo, out.df_cliente, out.df_vendedor} :
              ch.kind = "info"

\* a run over a dataset with rows in which one selection is empty and another
\* is not
C4_Witness ==
    /\ CycleRan
    /\ Len(out.df.rows) > 0
    /\ \E d \in DOMAIN out.selecionado : out.selecionado[d] = {}
    /\ \E d \in DOMAIN out.selecionado : out.selecionado[d] # {}

\* the year and month a "YYYY-MM" text names, as <<year, month>>
YearMonth(s) ==
    <<(s[1] - Zero) * 1000 + (s[2] - Zero) * 100 + (s[3] - Zero) * 10 + (s[4] - Zero),
      (s[6] - Zero) * 10 + (s[7] - Zero)>>

\* the text has the shape "dddd-dd"
IsYearMonth(s) ==
    /\ Len(s) = 7
    /\ s[5] = Dash
    /\ \A i \in {1, 2, 3, 4, 6, 7} : IsDigit(s[i])

\* g lists each key once, later months after earlier ones
Chronological(g) ==
    \A i, j \in 1..Len(g) :
        i < j => /\ IsYearMonth(g[i].key.v) /\ IsYearMonth(g[j].key.v)
                 /\ LexLess(YearMonth(g[i].key.v), YearMonth(g[j].key.v))

\* g lists each key once, larger sums first
LargestFirst(g) ==
    \A i, j \in 1..Len(g) :
        i < j => g[i].key # g[j].key /\ g[i].valor_venda >= g[j].valor_venda

\* C8: when the filtered subset is not empty, the month grouping is in
\* chronological order of its keys and the solution-type, customer and
\* salesperson groupings are in non-increasing order of their sums; no key
\* appears twice.
C8_Orders ==
    Rendered /\ Len(out.df_filtrado.rows) > 0 =>
        /\ out.df_mes.kind = "chart" /\ Chronological(out.df_mes.data)
        /\ \A ch \in {out.df_tipo, out.df_cliente, out.df_vendedor} :
              ch.kind = "chart" /\ LargestFirst(ch.data)

\* February and October of one year in the month grouping, and a grouping by
\* sum whose order is not that of its keys
C8_Witness ==
    /\ Rendered
    /\ out.df_mes.kind = "chart" /\ Len(out.df_mes.data) = 2
    /\ YearMonth(out.df_mes.data[1].key.v)[1] = YearMonth(out.df_mes.data[2].key.v)[1]
    /\ YearMonth(out.df_mes.data[2].key.v)[2] >= 10
    /\ \E ch \in {out.df_tipo, out.df_cliente, out.df_vendedor} :
          /\ Len(ch.data) = 2
          /\ ch.data[1].valor_venda > ch.data[2].valor_venda
          /\ LexLess(ch.data[2].key.v, ch.data[1].key.v)

\* the customer grouping before its cut
GroupsCliente == groupby_sum(out.df_filtrado, "cliente")

\* a stands before b in a stable sort by sum, largest first, of the groups in
\* their original (key) order
StableBefore(a, b) ==
    \/ a.valor_venda > b.valor_venda
    \/ a.valor_venda = b.valor_venda /\ LexLess(a.key.v, b.key.v)

TheSheet == fs[file_path]

\* the lines of load_data
LoaderLines == 11..41

\* C5 as claimed: when one of the nine source columns is absent from the
\* sheet, the run fails inside load_data: nothing is loaded or cached and no
\* filter, metric, chart or table is produced.
C5_AbsentColumnFailsInLoader ==
    CycleRan /\ ~(SourceColumns \subseteq TheSheet.columns) =>
        /\ out.raised # ""
        /\ out.line \in LoaderLines
        /\ cache = <<>>
        /\ out.df = EmptyFrame
        /\ out.options = <<>>
        /\ ~out.metrics /\ ~out.table

\* the cell is a text that is not a date
MalformedDate(c) == c.t = "str" /\ ~IsIsoDate(c.v)

\* the cell is a text that is not a number
MalformedNumber(c) == c.t = "str" /\ ~IsDecimal(c.v)

\* C6 as claimed: when the sheet has all nine columns, load_data returns, with
\* every row of the sheet; a sale date, invoice date or sale value cell that
\* is malformed is missing in the dataset, the other cells are loaded.
C6_MalformedCellsCoerced ==
    CycleRan /\ SourceColumns \subseteq TheSheet.columns =>
        /\ out.raised = ""
        /\ Len(out.df.rows) = Len(TheSheet.rows)
        /\ \A i \in 1..Len(out.df.rows) :
              LET raw == TheSheet.rows[i]
                  r == out.df.rows[i]
              IN /\ MalformedDate(raw["Data da Venda"]) => r["data_venda"] = NaT
                 /\ MalformedDate(raw["Data de Emissao da NF"]) => r["data_nf"] = NaT
                 /\ MalformedNumber(raw["Valor da Venda (R$)"]) => r["valor_venda"] = NaN
                 /\ raw["Data da Venda"].t = "date" => r["data_venda"] = raw["Data da Venda"]
                 /\ raw["Valor da Venda (R$)"].t = "num"
                       => r["valor_venda"] = raw["Valor da Venda (R$)"]

\* a dataset has been loaded by the last run
Loaded == "ano_mes" \in out.df.columns

\* the derived fields of a row with a sale date are those of the date
DerivedFromDate(r) ==
    r["data_venda"].t = "date" =>
        /\ r["ano"] = Num(r["data_venda"].v[1])
        /\ r["mes"] = Num(r["data_venda"].v[2])
        /\ r["ano_mes"].t = "str"
        /\ IsYearMonth(r["ano_mes"].v)
        /\ YearMonth(r["ano_mes"].v) = <<r["data_venda"].v[1], r["data_venda"].v[2]>>

C9_CanonicalUnchanged ==
    [][/\ cache # <<>> => cache' = cache
       /\ cache' # <<>> => cache'[file_path] = load_data(fs'[file_path]).df
       /\ out'.metrics =>
             /\ out'.df = cache'[file_path]
             /\ "lead_time_dias" \in out'.df_filtrado.columns
             /\ "lead_time_dias" \notin out'.df.columns
       /\ out.raised = "" /\ out.metrics /\ out'.selecionado = out.selecionado
             => out' = out]_vars

\* a run after a change of selection, with rows in its filtered copy
C9_Witness ==
    /\ cache # <<>>
    /\ Rendered
    /\ Len(out.df_filtrado.rows) > 0
    /\ Len(out.df_filtrado.rows) < Len(out.df.rows)
    /\ \E d \in DOMAIN out.selecionado : out.selecionado[d] # Range(out.options[d])
    /\ "lead_time_dias" \in out.df_filtrado.columns

\* what a run shows of the dataset it worked on agrees with the outcome r of a
\* call of load_data
WorksOn(o, r) ==
    IF r.raised # "" THEN o.raised = r.raised /\ o.line = r.line /\ o.df = EmptyFrame
    ELSE o.df = r.df

\* C10 as claimed: every run works on what an uncached load of the workbook,
\* as it is on disk at the time of the run, returns.  (A step that leaves the
\* workbook alone and changes anything is a run.)
C10_NeverStale ==
    [][fs' = fs => WorksOn(out', load_data(fs[file_path]))]_vars

\* C10 as amended: the cache is keyed by the path alone.  While nothing is
\* cached a run works on an uncached load of the workbook as it is, and caches
\* the dataset if load_data returns one; from then on every run works on that
\* cached dataset, whatever has become of the workbook since, and a change of
\* the workbook leaves the cache as it is.
C10_ServedFromCache ==
    [][/\ fs' = fs /\ cache = <<>> =>
             /\ WorksOn(out', load_data(fs[file_path]))
             /\ cache' = IF load_data(fs[file_path]).raised = "" THEN
                            [p \in {file_path} |-> load_data(fs[file_path]).df]
                         ELSE <<>>
       /\ fs' = fs /\ cache # <<>> =>
             /\ cache' = cache
             /\ out'.df = cache[file_path]
             /\ out'.raised = ""
       /\ fs' # fs => cache' = cache /\ out' = out]_vars

\* the page shows the cached dataset while the workbook on disk loads to
\* another one
C10_Witness ==
    /\ cache # <<>>
    /\ Rendered
    /\ out.df = cache[file_path]
    /\ LET r == load_data(fs[file_path]) IN r.raised = "" /\ r.df # cache[file_path]

====
